---- MODULE Spec2Model ----
(***************************************************************************)
(* A model of libhttp's server lifecycle (server.go) and of the pipeline   *)
(* composer (Service.Filter).                                              *)
(*                                                                         *)
(*   Spec / FairSpec : one Server instance: Stop callers, the background   *)
(*                     serve goroutine, request handlers that register     *)
(*                     shutdown functions, the drain goroutine and the     *)
(*                     participant goroutines started by Stop.             *)
(*   SpecFilter      : Service.Filter and the injection stage of Serve.    *)
(*   SpecListen      : address resolution of Listen / ListenTLS.           *)
(*   SpecUnix        : ListenUnix / ListenUnixTLS, the socket file, the    *)
(*                     listener close of a stopped server and the cleanup  *)
(*                     function.                                           *)
(*   SpecBind        : what the four Listen* functions return.             *)
(***************************************************************************)
EXTENDS Integers, Sequences, FiniteSets, TLC

\* ------------------------------------------------------------------ bounds
\* Number of application goroutines that call Server.Stop.  Caller 0 is the
\* serve goroutine of Serve/ServeTLS, which calls Stop after a serve error.
NumUsers == 1
\* Number of request handler goroutines (connections) that may be in flight.
NumHandlers == 1

Callers == 0 .. NumUsers
Users == 1 .. NumUsers
LoopCaller == 0
Handlers == 1 .. NumHandlers
\* Each handler registers at most one shutdown function, so shutdownFuncs has
\* at most one entry per handler.
MaxFuncs == NumHandlers
Slots == 1 .. MaxFuncs
\* A shutdown function is handed the server's context and may itself call
\* s.Stop(ctx): participant i is then the caller PartCaller(i) of that Stop.
PartCaller(i) == NumUsers + i
AllCallers == 0 .. NumUsers + MaxFuncs

VARIABLES
    \* ---- Server (server.go:17-24)
    shuttingDown,    \* the channel: "open" or "closed"
    shutdownOnce,    \* sync.Once: TRUE once its function has returned
    shutdownFuncs,   \* sequence of registered functions (the registering handler)
    shutdownFuncsM,  \* sync.Mutex: <<"free">>, <<"stop", c>> or <<"reg", h>>
    \* ---- a call of Stop by caller c
    pc,              \* position of caller c inside Stop
    ctx,             \* the context caller c passed: [kind, done]
    wg,              \* the sync.WaitGroup counter of the running Stop body
    idx,             \* position of the range loop over shutdownFuncs
    rangeLen,        \* length of the slice the range statement evaluated
    \* ---- goroutines started by Stop
    drain,           \* the goroutine of server.go:47-56
    part,            \* part[i]: the goroutine running shutdownFuncs[i]
    partCtx,         \* partCtx[i]: the caller whose ctx f was given, or -1
    \* ---- the http.Server and its connections
    serveLoop,       \* the goroutine of server.go:89-98
    inShutdown,      \* listeners closed by srv.Shutdown or srv.Close
    hpc,             \* position of request handler h
    \* ---- the process
    crashed,         \* "no", or the goroutine whose unrecovered panic ended it
    \* ---- history (what has happened, for the properties)
    executors,       \* callers that ran the function passed to shutdownOnce.Do
    closeAttempts,   \* number of close(s.shuttingDown) executed
    drainLaunches,   \* number of times the drain goroutine was started
    partLaunches,    \* partLaunches[i]: times shutdownFuncs[i] was started
    \* ---- pipeline composer
    svc,             \* the composed Service, a closure [f, svc] (see Filter)
    filters,         \* the stages passed to Service.Filter, in call order
    served,          \* TRUE once Serve wrapped svc with its injection stage
    trace,           \* what the last request observed, in order
    \* ---- listener acquisition
    lcall,           \* the inputs of the last Listen* call
    bound,           \* what a Listen / ListenTLS call bound, or its error
    ubound,          \* what a ListenUnix / ListenUnixTLS call bound, or its error
    lret,            \* what the last Listen* call returned and started
    \* ---- domain sockets
    fs,              \* the paths that exist in the file system
    usrv             \* the servers ListenUnix / ListenUnixTLS returned, in order

vars == << shuttingDown, shutdownOnce, shutdownFuncs, shutdownFuncsM, pc, ctx, wg,
           idx, drain, part, serveLoop, inShutdown, hpc, crashed, executors,
           closeAttempts, drainLaunches, partLaunches, rangeLen, partCtx, svc,
           filters, served, trace, lcall, bound, ubound, lret, fs, usrv >>

stopVars == << shuttingDown, shutdownOnce, shutdownFuncs, shutdownFuncsM, pc, ctx,
               wg, idx, drain, part, serveLoop, inShutdown, hpc, crashed,
               executors, closeAttempts, drainLaunches, partLaunches,
                    rangeLen, partCtx >>
filterVars == << svc, filters, served, trace >>
listenVars == << lcall, bound, ubound, lret, fs, usrv >>

\* ------------------------------------------------------------- contexts
\* "cancelled": Done is closed when Stop is called (a deadline in the past).
\* "deadline":  Done is closed later.   "background": Done is never closed.
CtxKinds == {"cancelled", "deadline", "background"}
NoCtx == [kind |-> "none", done |-> FALSE]
NewCtx(k) == [kind |-> k, done |-> (k = "cancelled")]

\* The drain goroutine.  owner: the caller whose ctx the closure captured (-1:
\* not started); ctxKind: the kind of that context; err: what srv.Shutdown
\* returned ("nil", "lnerr": closing a listener failed, "ctxerr": ctx.Err());
\* shutdownCalls / closeCalls: calls of srv.Shutdown / srv.Close so far.
NoDrain == [pc |-> "none", owner |-> -1, ctxKind |-> "none", err |-> "none",
            shutdownCalls |-> 0, closeCalls |-> 0]

Free == << "free" >>
HeldByStop(c) == << "stop", c >>
HeldByReg(h) == << "reg", h >>

\* Connections the http.Server tracks as active: one per handler in flight.
ActiveConns == {h \in Handlers : hpc[h] # "none"}

\* Registrations that are under way (waiting for, or holding, the mutex).
PendingRegs == {h \in Handlers : hpc[h] \in {"reglock", "regin"}}

\* ------------------------------------------------------------------ Init
InitStop ==
    /\ shuttingDown = "open"
    /\ shutdownOnce = FALSE
    /\ shutdownFuncs = << >>
    /\ shutdownFuncsM = Free
    /\ pc = [c \in AllCallers |-> "idle"]
    /\ ctx = [c \in AllCallers |-> NoCtx]
    /\ wg = 0
    /\ idx = 0
    /\ drain = NoDrain
    /\ part = [i \in Slots |-> "none"]
    /\ serveLoop = "serving"
    /\ inShutdown = FALSE
    /\ hpc = [h \in Handlers |-> "none"]
    /\ crashed = "no"
    /\ executors = {}
    /\ closeAttempts = 0
    /\ drainLaunches = 0
    /\ partLaunches = [i \in Slots |-> 0]
    /\ rangeLen = 0
    /\ partCtx = [i \in Slots |-> -1]

\* ------------------------------------------------------ pipeline composer
\* Largest number of Service.Filter calls the application makes before Serve.
MaxStages == 3
\* The stages an application passes to Filter.  Each observes the request
\* (pre), calls the downstream service and observes the response (post).
Stages == {"A", "B", "C"}
\* The stage Serve adds (server.go:82-85): sets req.server, then calls svc(req).
InjectStage == "inject"
\* The terminal handler: a Service that is not the result of Filter.
TerminalSvc == [f |-> "T", svc |-> "nil"]
\* The request as the http.Server hands it to the Service: req.server unset.
NewRequest == [server |-> "nil"]

\* A Filter that puts the new stage under the outermost one.
FilterUnderOutermost(s, f) ==
    IF s.f = "T"
      THEN [f |-> f, svc |-> s]
      ELSE [f |-> s.f, svc |-> [f |-> f, svc |-> s.svc]]
\* Service.Filter (lines 32-36 of the file that defines Service): the new
\* Service is the closure func(req) { return f(req, svc) } over the receiver
\* svc and the stage f.
Filter(s, f) == [f |-> f, svc |-> s]

Event(kind, stage, req) == [ev |-> kind, stage |-> stage, server |-> req.server]

\* Calling a Service with a request: what is observed, in order.  A closure
\* made by Filter calls its stage f with (req, svc); the injection stage sets
\* req.server and returns svc(req); an application stage observes the request,
\* calls svc(req), and observes the response.
RECURSIVE Call(_, _)
Call(s, req) ==
    IF s.f = "T"
      THEN << Event("handle", "T", req) >>
      ELSE IF s.f = InjectStage
        THEN << Event("pre", s.f, req) >> \o Call(s.svc, [req EXCEPT !.server = "s"])
        ELSE << Event("pre", s.f, req) >> \o Call(s.svc, req)
                 \o << Event("post", s.f, req) >>

InitFilter ==
    /\ svc = TerminalSvc
    /\ filters = << >>
    /\ served = FALSE
    /\ trace = << >>

\* ---------------------------------------------------- listener acquisition
\* Strings are sequences of tokens: the characters that matter to the parsing
\* ("0".."9", "+", "-", ":", and "x" for any other character) and whole host
\* literals ("127.0.0.1", "10.0.0.5").
Digits == << "0", "1", "2", "3", "4", "5", "6", "7", "8", "9" >>
IsDigit(t) == \E d \in 1 .. 10 : Digits[d] = t
DigitVal(t) == (CHOOSE d \in 1 .. 10 : Digits[d] = t) - 1
HostLiterals == {"127.0.0.1", "10.0.0.5"}
EmptyStr == << >>

NoCall == [fn |-> "none", addr |-> EmptyStr, envAddr |-> EmptyStr,
           envPort |-> EmptyStr]
NoBound == [status |-> "none", host |-> "", port |-> -1]

\* Paths are strings too: "/tmp" and "/run" are directories, "/" separates,
\* any other token is a file name.  os.TempDir() returns the directory.
TempDir == << "/tmp" >>
RunDir == << "/run" >>
\* present: whether the path existed when net.ListenUnix was called.
NoUBound == [status |-> "none", path |-> EmptyStr, present |-> FALSE]
\* What a Listen* call returned (server: a non-nil *Server; err; cleanup:
\* "none" when the function has no such result) and how often it called the
\* bind (net.ListenTCP / net.ListenUnix) and Serve / ServeTLS.
NoRet == [server |-> FALSE, err |-> "none", cleanup |-> "none", binds |-> 0,
          serves |-> 0]

InitListen ==
    /\ lcall = NoCall
    /\ bound = NoBound
    /\ ubound = NoUBound
    /\ lret = NoRet
    /\ fs = {TempDir, RunDir}
    /\ usrv = << >>

Init == InitStop /\ InitFilter /\ InitListen

\* ------------------------------------------------- Server.Stop, server.go:39-67
\* A caller decides to stop the server and reaches s.shutdownFuncsM.Lock().
StopCall(c, k) ==
    /\ crashed = "no"
    /\ c \in Users
    /\ pc[c] = "idle"
    /\ pc' = [pc EXCEPT ![c] = "lock"]
    /\ ctx' = [ctx EXCEPT ![c] = NewCtx(k)]
    /\ UNCHANGED << shuttingDown, shutdownOnce, shutdownFuncs, shutdownFuncsM, wg,
                    idx, drain, part, serveLoop, inShutdown, hpc, crashed,
                    executors, closeAttempts, drainLaunches, partLaunches,
                    rangeLen, partCtx >>
    /\ UNCHANGED << filterVars, listenVars >>

\* A re-entrant mutex: Lock also succeeds while a Stop call holds it.
StopLockReentrant(c) ==
    /\ crashed = "no"
    /\ pc[c] = "lock"
    /\ shutdownFuncsM = Free \/ shutdownFuncsM[1] = "stop"
    /\ shutdownFuncsM' = HeldByStop(c)
    /\ pc' = [pc EXCEPT ![c] = "once"]
    /\ UNCHANGED << shuttingDown, shutdownOnce, shutdownFuncs, ctx, wg, idx, drain,
                    part, serveLoop, inShutdown, hpc, crashed, executors,
                    closeAttempts, drainLaunches, partLaunches,
                    rangeLen, partCtx >>
    /\ UNCHANGED << filterVars, listenVars >>
\* s.shutdownFuncsM.Lock() (line 40): blocks until the mutex is free.
StopLock(c) ==
    /\ crashed = "no"
    /\ pc[c] = "lock"
    /\ shutdownFuncsM = Free
    /\ shutdownFuncsM' = HeldByStop(c)
    /\ pc' = [pc EXCEPT ![c] = "once"]
    /\ UNCHANGED << shuttingDown, shutdownOnce, shutdownFuncs, ctx, wg, idx, drain,
                    part, serveLoop, inShutdown, hpc, crashed, executors,
                    closeAttempts, drainLaunches, partLaunches,
                    rangeLen, partCtx >>
    /\ UNCHANGED << filterVars, listenVars >>

\* A Once that forgets it has run: every call of Do runs the function.
OnceDoAlways(done) == TRUE
\* sync.Once.Do runs its function iff no earlier call of Do has returned.
OnceDo(done) == ~done

\* s.shutdownOnce.Do(...) (line 42): enter the function, or skip it.
StopOnce(c) ==
    /\ crashed = "no"
    /\ pc[c] = "once"
    /\ IF OnceDo(shutdownOnce)
         THEN /\ pc' = [pc EXCEPT ![c] = "close"]
              /\ executors' = executors \cup {c}
         ELSE /\ pc' = [pc EXCEPT ![c] = "unlock"]
              /\ UNCHANGED executors
    /\ UNCHANGED << shuttingDown, shutdownOnce, shutdownFuncs, shutdownFuncsM, ctx,
                    wg, idx, drain, part, serveLoop, inShutdown, hpc, crashed,
                    closeAttempts, drainLaunches, partLaunches,
                    rangeLen, partCtx >>
    /\ UNCHANGED << filterVars, listenVars >>

\* Line 43 left out: the shutdown goes on without closing the channel.
StopCloseSkipped(c) ==
    /\ crashed = "no"
    /\ pc[c] = "close"
    /\ pc' = [pc EXCEPT ![c] = "spawn"]
    /\ UNCHANGED << shuttingDown, shutdownOnce, shutdownFuncs, shutdownFuncsM, ctx,
                    wg, idx, drain, part, serveLoop, inShutdown, hpc, crashed,
                    executors, closeAttempts, drainLaunches, partLaunches,
                    rangeLen, partCtx >>
    /\ UNCHANGED << filterVars, listenVars >>
\* close(s.shuttingDown) (line 43).  Closing a closed channel panics in the
\* calling goroutine, which ends the process.
StopClose(c) ==
    /\ crashed = "no"
    /\ pc[c] = "close"
    /\ closeAttempts' = closeAttempts + 1
    /\ IF shuttingDown = "open"
         THEN /\ shuttingDown' = "closed"
              /\ pc' = [pc EXCEPT ![c] = "spawn"]
              /\ UNCHANGED crashed
         ELSE /\ crashed' = "close"
              /\ pc' = [pc EXCEPT ![c] = "panicked"]
              /\ UNCHANGED shuttingDown
    /\ UNCHANGED << shutdownOnce, shutdownFuncs, shutdownFuncsM, ctx, wg, idx, drain,
                    part, serveLoop, inShutdown, hpc, executors, drainLaunches,
                    partLaunches,
                    rangeLen, partCtx >>
    /\ UNCHANGED << filterVars, listenVars >>

\* wg.Add(1); go func() { ... s.srv.Shutdown(ctx) ... }() (lines 45-56).
StopSpawnDrain(c) ==
    /\ crashed = "no"
    /\ pc[c] = "spawn"
    /\ wg' = wg + 1
    /\ drain' = [NoDrain EXCEPT !.pc = "shutdown", !.owner = c,
                                !.ctxKind = ctx[c].kind]
    /\ drainLaunches' = drainLaunches + 1
    /\ idx' = 1
    /\ rangeLen' = Len(shutdownFuncs)
    /\ pc' = [pc EXCEPT ![c] = "range"]
    /\ UNCHANGED << shuttingDown, shutdownOnce, shutdownFuncs, shutdownFuncsM, ctx,
                    part, serveLoop, inShutdown, hpc, crashed, executors,
                    closeAttempts, partLaunches, partCtx >>
    /\ UNCHANGED << filterVars, listenVars >>

\* A Stop that goes on to wg.Wait without starting the registered functions.
StopRangeSkipped(c) ==
    /\ crashed = "no"
    /\ pc[c] = "range"
    /\ pc' = [pc EXCEPT ![c] = "wait"]
    /\ UNCHANGED << shuttingDown, shutdownOnce, shutdownFuncs, shutdownFuncsM, ctx,
                    wg, idx, drain, part, serveLoop, inShutdown, hpc, crashed,
                    executors, closeAttempts, drainLaunches, partLaunches,
                    rangeLen, partCtx >>
    /\ UNCHANGED << filterVars, listenVars >>
\* for _, f := range s.shutdownFuncs { wg.Add(1); go func() {...}() } (57-64).
StopRange(c) ==
    /\ crashed = "no"
    /\ pc[c] = "range"
    /\ IF idx <= rangeLen
         THEN /\ wg' = wg + 1
              /\ part' = [part EXCEPT ![idx] = "running"]
              /\ partCtx' = [partCtx EXCEPT ![idx] = c]
              /\ partLaunches' = [partLaunches EXCEPT ![idx] = @ + 1]
              /\ idx' = idx + 1
              /\ UNCHANGED pc
         ELSE /\ pc' = [pc EXCEPT ![c] = "wait"]
              /\ UNCHANGED << wg, part, partCtx, partLaunches, idx >>
    /\ UNCHANGED << shuttingDown, shutdownOnce, shutdownFuncs, shutdownFuncsM, ctx,
                    drain, serveLoop, inShutdown, hpc, crashed, executors,
                    closeAttempts, drainLaunches, rangeLen >>
    /\ UNCHANGED << filterVars, listenVars >>

\* A Wait that does not wait.
WaitNoWait(n) == TRUE
\* wg.Wait() returns when the counter is zero.
WaitReturns(n) == n = 0

\* wg.Wait() (line 65); then the function returns and Once records it.
StopWait(c) ==
    /\ crashed = "no"
    /\ pc[c] = "wait"
    /\ WaitReturns(wg)
    /\ shutdownOnce' = TRUE
    /\ pc' = [pc EXCEPT ![c] = "unlock"]
    /\ UNCHANGED << shuttingDown, shutdownFuncs, shutdownFuncsM, ctx, wg, idx, drain,
                    part, serveLoop, inShutdown, hpc, crashed, executors,
                    closeAttempts, drainLaunches, partLaunches,
                    rangeLen, partCtx >>
    /\ UNCHANGED << filterVars, listenVars >>

\* A Stop that empties the list of shutdown functions before it returns.
StopUnlockClears(c) ==
    /\ crashed = "no"
    /\ pc[c] = "unlock"
    /\ shutdownFuncsM' = Free
    /\ pc' = [pc EXCEPT ![c] = "returned"]
    /\ ctx' = [ctx EXCEPT ![c] = NoCtx]
    /\ shutdownFuncs' = << >>
    /\ UNCHANGED << shuttingDown, shutdownOnce, wg, idx, drain,
                    part, serveLoop, inShutdown, hpc, crashed, executors,
                    closeAttempts, drainLaunches, partLaunches,
                    rangeLen, partCtx >>
    /\ UNCHANGED << filterVars, listenVars >>
\* defer s.shutdownFuncsM.Unlock() (line 41): Stop returns.
StopUnlock(c) ==
    /\ crashed = "no"
    /\ pc[c] = "unlock"
    /\ shutdownFuncsM' = Free
    /\ pc' = [pc EXCEPT ![c] = "returned"]
    /\ ctx' = [ctx EXCEPT ![c] = NoCtx]
    /\ UNCHANGED << shuttingDown, shutdownOnce, shutdownFuncs, wg, idx, drain,
                    part, serveLoop, inShutdown, hpc, crashed, executors,
                    closeAttempts, drainLaunches, partLaunches,
                    rangeLen, partCtx >>
    /\ UNCHANGED << filterVars, listenVars >>

\* The deadline of a context passes (or its cancel function is called).
CtxExpire(c) ==
    /\ crashed = "no"
    /\ pc[c] \notin {"idle", "returned"}
    /\ ctx[c].kind = "deadline"
    /\ ~ctx[c].done
    /\ ctx' = [ctx EXCEPT ![c].done = TRUE]
    /\ UNCHANGED << shuttingDown, shutdownOnce, shutdownFuncs, shutdownFuncsM, pc,
                    wg, idx, drain, part, serveLoop, inShutdown, hpc, crashed,
                    executors, closeAttempts, drainLaunches, partLaunches,
                    rangeLen, partCtx >>
    /\ UNCHANGED << filterVars, listenVars >>

\* --------------------------------- the drain goroutine, server.go:47-56
\* A drain goroutine that skips srv.Shutdown when ctx is already done and
\* goes straight to srv.Close.
DrainShutdownSkipped ==
    /\ crashed = "no"
    /\ drain.pc = "shutdown"
    /\ IF ctx[drain.owner].done
         THEN drain' = [drain EXCEPT !.pc = "close"]
         ELSE drain' = [drain EXCEPT !.pc = "poll", !.shutdownCalls = @ + 1]
    /\ inShutdown' = TRUE
    /\ UNCHANGED << shuttingDown, shutdownOnce, shutdownFuncs, shutdownFuncsM, pc,
                    ctx, wg, idx, part, serveLoop, hpc, crashed, executors,
                    closeAttempts, drainLaunches, partLaunches,
                    rangeLen, partCtx >>
    /\ UNCHANGED << filterVars, listenVars >>
\* s.srv.Shutdown(ctx) begins (net/http): it marks the server as shutting
\* down and closes the listeners.
DrainShutdown ==
    /\ crashed = "no"
    /\ drain.pc = "shutdown"
    /\ drain' = [drain EXCEPT !.pc = "poll", !.shutdownCalls = @ + 1]
    /\ inShutdown' = TRUE
    /\ UNCHANGED << shuttingDown, shutdownOnce, shutdownFuncs, shutdownFuncsM, pc,
                    ctx, wg, idx, part, serveLoop, hpc, crashed, executors,
                    closeAttempts, drainLaunches, partLaunches,
                    rangeLen, partCtx >>
    /\ UNCHANGED << filterVars, listenVars >>

\* The loop of srv.Shutdown: closeIdleConns() reports whether no connection is
\* active; if so Shutdown returns the error of closing the listeners (lnerr),
\* nil when there was none.
\* A nil result ends the goroutine (deferred wg.Done); an error goes on to
\* srv.Close (line 51).
DrainPoll ==
    /\ crashed = "no"
    /\ drain.pc = "poll"
    /\ IF ActiveConns = {}
         THEN \E lnerr \in BOOLEAN :
                IF lnerr
                  THEN /\ drain' = [drain EXCEPT !.pc = "close", !.err = "lnerr"]
                       /\ UNCHANGED wg
                  ELSE /\ drain' = [drain EXCEPT !.pc = "done", !.err = "nil"]
                       /\ wg' = wg - 1
         ELSE /\ drain' = [drain EXCEPT !.pc = "select"]
              /\ UNCHANGED wg
    /\ UNCHANGED << shuttingDown, shutdownOnce, shutdownFuncs, shutdownFuncsM, pc,
                    ctx, idx, part, serveLoop, inShutdown, hpc, crashed, executors,
                    closeAttempts, drainLaunches, partLaunches,
                    rangeLen, partCtx >>
    /\ UNCHANGED << filterVars, listenVars >>

\* select { case <-ctx.Done(): return ctx.Err() ... } inside srv.Shutdown.
DrainSelectCtx ==
    /\ crashed = "no"
    /\ drain.pc = "select"
    /\ ctx[drain.owner].done
    /\ drain' = [drain EXCEPT !.pc = "close", !.err = "ctxerr"]
    /\ UNCHANGED << shuttingDown, shutdownOnce, shutdownFuncs, shutdownFuncsM, pc,
                    ctx, wg, idx, part, serveLoop, inShutdown, hpc, crashed,
                    executors, closeAttempts, drainLaunches, partLaunches,
                    rangeLen, partCtx >>
    /\ UNCHANGED << filterVars, listenVars >>

\* select { ... case <-ticker.C: } inside srv.Shutdown: poll again.
DrainSelectTick ==
    /\ crashed = "no"
    /\ drain.pc = "select"
    /\ drain' = [drain EXCEPT !.pc = "poll"]
    /\ UNCHANGED << shuttingDown, shutdownOnce, shutdownFuncs, shutdownFuncsM, pc,
                    ctx, wg, idx, part, serveLoop, inShutdown, hpc, crashed,
                    executors, closeAttempts, drainLaunches, partLaunches,
                    rangeLen, partCtx >>
    /\ UNCHANGED << filterVars, listenVars >>

\* The forceful close without the deferred wg.Done of line 48.
DrainCloseNoDone ==
    /\ crashed = "no"
    /\ drain.pc = "close"
    /\ \E ok \in BOOLEAN :
         drain' = [drain EXCEPT !.pc = IF ok THEN "done" ELSE "panicked",
                                !.closeCalls = @ + 1]
    /\ inShutdown' = TRUE
    /\ UNCHANGED << shuttingDown, shutdownOnce, shutdownFuncs, shutdownFuncsM, pc,
                    ctx, wg, idx, part, serveLoop, hpc, crashed, executors,
                    closeAttempts, drainLaunches, partLaunches,
                    rangeLen, partCtx >>
    /\ UNCHANGED << filterVars, listenVars >>
\* s.srv.Close() (line 51) closes the listeners and every connection; if it
\* fails the goroutine panics (line 53); its deferred wg.Done runs either way.
DrainClose ==
    /\ crashed = "no"
    /\ drain.pc = "close"
    /\ \E ok \in BOOLEAN :
         drain' = [drain EXCEPT !.pc = IF ok THEN "done" ELSE "panicked",
                                !.closeCalls = @ + 1]
    /\ wg' = wg - 1
    /\ inShutdown' = TRUE
    /\ UNCHANGED << shuttingDown, shutdownOnce, shutdownFuncs, shutdownFuncsM, pc,
                    ctx, idx, part, serveLoop, hpc, crashed, executors,
                    closeAttempts, drainLaunches, partLaunches,
                    rangeLen, partCtx >>
    /\ UNCHANGED << filterVars, listenVars >>

\* --------------------------- a participant goroutine, server.go:60-63
\* f(ctx) calls s.Stop(ctx) on the server it shuts down for: the participant
\* goroutine becomes a caller of Stop (line 39) and continues when that call
\* returns.  The context it passes is the one it was given (partCtx[i]); Stop
\* reads its context only inside the function it hands to shutdownOnce.Do.
PartCallsStop(i) ==
    /\ crashed = "no"
    /\ part[i] = "running"
    /\ pc[PartCaller(i)] = "idle"
    /\ part' = [part EXCEPT ![i] = "instop"]
    /\ pc' = [pc EXCEPT ![PartCaller(i)] = "lock"]
    /\ UNCHANGED << shuttingDown, shutdownOnce, shutdownFuncs, shutdownFuncsM, wg, ctx,
                    idx, drain, serveLoop, inShutdown, hpc, crashed, executors,
                    closeAttempts, drainLaunches, partLaunches,
                    rangeLen, partCtx >>
    /\ UNCHANGED << filterVars, listenVars >>

\* f(ctx) returns; the deferred wg.Done runs.  An f that called Stop returns
\* only after that call has.
PartReturn(i) ==
    /\ crashed = "no"
    /\ IF part[i] = "instop"
         THEN pc[PartCaller(i)] = "returned"
         ELSE part[i] = "running"
    /\ part' = [part EXCEPT ![i] = "done"]
    /\ wg' = wg - 1
    /\ UNCHANGED << shuttingDown, shutdownOnce, shutdownFuncs, shutdownFuncsM, pc,
                    ctx, idx, drain, serveLoop, inShutdown, hpc, crashed, executors,
                    closeAttempts, drainLaunches, partLaunches,
                    rangeLen, partCtx >>
    /\ UNCHANGED << filterVars, listenVars >>

\* f(ctx) panics; the deferred wg.Done runs while the panic unwinds.
PartPanic(i) ==
    /\ crashed = "no"
    /\ part[i] = "running"
    /\ part' = [part EXCEPT ![i] = "panicked"]
    /\ wg' = wg - 1
    /\ UNCHANGED << shuttingDown, shutdownOnce, shutdownFuncs, shutdownFuncsM, pc,
                    ctx, idx, drain, serveLoop, inShutdown, hpc, crashed, executors,
                    closeAttempts, drainLaunches, partLaunches,
                    rangeLen, partCtx >>
    /\ UNCHANGED << filterVars, listenVars >>

\* Participant goroutines that recover their panic: only the panic of the
\* drain goroutine ends the process.
CrashRecovered(who) ==
    /\ crashed = "no"
    /\ who = "drain"
    /\ drain.pc = "panicked"
    /\ crashed' = who
    /\ UNCHANGED << shuttingDown, shutdownOnce, shutdownFuncs, shutdownFuncsM, pc,
                    ctx, wg, idx, drain, part, serveLoop, inShutdown, hpc,
                    executors, closeAttempts, drainLaunches, partLaunches,
                    rangeLen, partCtx >>
    /\ UNCHANGED << filterVars, listenVars >>
\* Nothing in server.go recovers: a panic that has unwound its goroutine ends
\* the process (the Go runtime), and every goroutine with it.
Crash(who) ==
    /\ crashed = "no"
    /\ IF who = "drain"
         THEN drain.pc = "panicked"
         ELSE who = "participant" /\ \E i \in Slots : part[i] = "panicked"
    /\ crashed' = who
    /\ UNCHANGED << shuttingDown, shutdownOnce, shutdownFuncs, shutdownFuncsM, pc,
                    ctx, wg, idx, drain, part, serveLoop, inShutdown, hpc,
                    executors, closeAttempts, drainLaunches, partLaunches,
                    rangeLen, partCtx >>
    /\ UNCHANGED << filterVars, listenVars >>

\* ------------------------------- the serve goroutine, server.go:89-98
\* A serve goroutine that logs the error of the accept loop and ends.
ServeFailSilent ==
    /\ crashed = "no"
    /\ serveLoop = "serving"
    /\ ~inShutdown
    /\ serveLoop' = "failed"
    /\ UNCHANGED << shuttingDown, shutdownOnce, shutdownFuncs, shutdownFuncsM, pc,
                    ctx, wg, idx, drain, part, inShutdown, hpc, crashed, executors,
                    closeAttempts, drainLaunches, partLaunches,
                    rangeLen, partCtx >>
    /\ UNCHANGED << filterVars, listenVars >>
\* s.srv.Serve(l) returns an error other than http.ErrServerClosed: the
\* goroutine calls s.Stop with a context that is already cancelled.
ServeFail ==
    /\ crashed = "no"
    /\ serveLoop = "serving"
    /\ ~inShutdown
    /\ serveLoop' = "failed"
    /\ pc' = [pc EXCEPT ![LoopCaller] = "lock"]
    /\ ctx' = [ctx EXCEPT ![LoopCaller] = NewCtx("cancelled")]
    /\ UNCHANGED << shuttingDown, shutdownOnce, shutdownFuncs, shutdownFuncsM, wg,
                    idx, drain, part, inShutdown, hpc, crashed, executors,
                    closeAttempts, drainLaunches, partLaunches,
                    rangeLen, partCtx >>
    /\ UNCHANGED << filterVars, listenVars >>

\* s.srv.Serve(l) returns http.ErrServerClosed: the goroutine ends.
ServeClosed ==
    /\ crashed = "no"
    /\ serveLoop = "serving"
    /\ inShutdown
    /\ serveLoop' = "closed"
    /\ UNCHANGED << shuttingDown, shutdownOnce, shutdownFuncs, shutdownFuncsM, pc,
                    ctx, wg, idx, drain, part, inShutdown, hpc, crashed, executors,
                    closeAttempts, drainLaunches, partLaunches,
                    rangeLen, partCtx >>
    /\ UNCHANGED << filterVars, listenVars >>

\* ------------------------------------------------- request handlers
\* The serve loop accepts a connection and a handler starts on it.
HandlerStart(h) ==
    /\ crashed = "no"
    /\ hpc[h] = "none"
    /\ serveLoop = "serving"
    /\ ~inShutdown
    /\ hpc' = [hpc EXCEPT ![h] = "active"]
    /\ UNCHANGED << shuttingDown, shutdownOnce, shutdownFuncs, shutdownFuncsM, pc,
                    ctx, wg, idx, drain, part, serveLoop, inShutdown, crashed,
                    executors, closeAttempts, drainLaunches, partLaunches,
                    rangeLen, partCtx >>
    /\ UNCHANGED << filterVars, listenVars >>

\* The handler returns; its connection is idle or closed from then on.
HandlerFinish(h) ==
    /\ crashed = "no"
    /\ hpc[h] = "active"
    /\ hpc' = [hpc EXCEPT ![h] = "none"]
    /\ UNCHANGED << shuttingDown, shutdownOnce, shutdownFuncs, shutdownFuncsM, pc,
                    ctx, wg, idx, drain, part, serveLoop, inShutdown, crashed,
                    executors, closeAttempts, drainLaunches, partLaunches,
                    rangeLen, partCtx >>
    /\ UNCHANGED << filterVars, listenVars >>

\* The handler calls req.server.addShutdownFunc(f) (server.go:71) and reaches
\* s.shutdownFuncsM.Lock().
HandlerReg(h) ==
    /\ crashed = "no"
    /\ hpc[h] = "active"
    /\ \A i \in 1 .. Len(shutdownFuncs) : shutdownFuncs[i] # h
    /\ hpc' = [hpc EXCEPT ![h] = "reglock"]
    /\ UNCHANGED << shuttingDown, shutdownOnce, shutdownFuncs, shutdownFuncsM, pc,
                    ctx, wg, idx, drain, part, serveLoop, inShutdown, crashed,
                    executors, closeAttempts, drainLaunches, partLaunches,
                    rangeLen, partCtx >>
    /\ UNCHANGED << filterVars, listenVars >>

\* A registration that does not take the mutex.
RegLockUnguarded(h) ==
    /\ crashed = "no"
    /\ hpc[h] = "reglock"
    /\ hpc' = [hpc EXCEPT ![h] = "regin"]
    /\ UNCHANGED << shuttingDown, shutdownOnce, shutdownFuncs, shutdownFuncsM, pc,
                    ctx, wg, idx, drain, part, serveLoop, inShutdown, crashed,
                    executors, closeAttempts, drainLaunches, partLaunches,
                    rangeLen, partCtx >>
    /\ UNCHANGED << filterVars, listenVars >>
\* s.shutdownFuncsM.Lock() (line 72): blocks until the mutex is free.
RegLock(h) ==
    /\ crashed = "no"
    /\ hpc[h] = "reglock"
    /\ shutdownFuncsM = Free
    /\ shutdownFuncsM' = HeldByReg(h)
    /\ hpc' = [hpc EXCEPT ![h] = "regin"]
    /\ UNCHANGED << shuttingDown, shutdownOnce, shutdownFuncs, pc, ctx, wg, idx,
                    drain, part, serveLoop, inShutdown, crashed, executors,
                    closeAttempts, drainLaunches, partLaunches,
                    rangeLen, partCtx >>
    /\ UNCHANGED << filterVars, listenVars >>

\* s.shutdownFuncs = append(s.shutdownFuncs, f) and the deferred Unlock
\* (lines 73-74): addShutdownFunc returns to the handler.
RegAppend(h) ==
    /\ crashed = "no"
    /\ hpc[h] = "regin"
    /\ shutdownFuncs' = Append(shutdownFuncs, h)
    /\ shutdownFuncsM' = IF shutdownFuncsM = HeldByReg(h) THEN Free ELSE shutdownFuncsM
    /\ hpc' = [hpc EXCEPT ![h] = "active"]
    /\ UNCHANGED << shuttingDown, shutdownOnce, pc, ctx, wg, idx, drain, part,
                    serveLoop, inShutdown, crashed, executors, closeAttempts,
                    drainLaunches, partLaunches,
                    rangeLen, partCtx >>
    /\ UNCHANGED << filterVars, listenVars >>

\* ------------------------------------------------------------------ Next
NextStop ==
    \/ \E c \in Users, k \in CtxKinds : StopCall(c, k)
    \/ \E c \in AllCallers : StopLock(c)
    \/ \E c \in AllCallers : StopOnce(c)
    \/ \E c \in AllCallers : StopClose(c)
    \/ \E c \in AllCallers : StopSpawnDrain(c)
    \/ \E c \in AllCallers : StopRange(c)
    \/ \E c \in AllCallers : StopWait(c)
    \/ \E c \in AllCallers : StopUnlock(c)
    \/ \E c \in Callers : CtxExpire(c)
    \/ DrainShutdown
    \/ DrainPoll
    \/ DrainSelectCtx
    \/ DrainSelectTick
    \/ DrainClose
    \/ \E i \in Slots : PartCallsStop(i)
    \/ \E i \in Slots : PartReturn(i)
    \/ \E i \in Slots : PartPanic(i)
    \/ \E who \in {"drain", "participant"} : Crash(who)
    \/ ServeFail
    \/ ServeClosed
    \/ \E h \in Handlers : HandlerStart(h)
    \/ \E h \in Handlers : HandlerFinish(h)
    \/ \E h \in Handlers : HandlerReg(h)
    \/ \E h \in Handlers : RegLock(h)
    \/ \E h \in Handlers : RegAppend(h)

Next == NextStop

Spec == Init /\ [][Next]_vars

\* The next step of the goroutine that called Stop, of the drain goroutine (the
\* select of srv.Shutdown apart) and of a handler that finishes or registers.
StopStep(c) ==
    \/ StopLock(c)
    \/ StopOnce(c)
    \/ StopClose(c)
    \/ StopSpawnDrain(c)
    \/ StopRange(c)
    \/ StopWait(c)
    \/ StopUnlock(c)
DrainStep == DrainShutdown \/ DrainPoll \/ DrainClose
HandlerStep(h) == HandlerFinish(h) \/ RegLock(h) \/ RegAppend(h)

\* The scheduling the Go runtime guarantees: a goroutine that can take its next
\* step does so; a context with a deadline expires; a select whose ctx.Done()
\* case is ready again and again takes it; a panic that has unwound its
\* goroutine ends the process.  Participants and request handlers are assumed
\* to finish what they run (they may not be stopped from outside); when a
\* caller calls Stop, whether the serve loop fails, whether a handler
\* registers a shutdown function and whether a participant calls Stop are
\* left open.
\* The steps of the first conjunct are taken at most once each in a behaviour
\* (a caller runs Stop once, a context expires once, a participant ends once,
\* the process ends once, the accept loop ends once), so weak fairness of
\* their disjunction is the same condition as weak fairness of each of them.
Fairness ==
    /\ WF_vars(\/ \E c \in AllCallers : StopStep(c)
               \/ \E c \in Callers : CtxExpire(c)
               \/ \E i \in Slots : PartReturn(i) \/ PartPanic(i)
               \/ \E who \in {"drain", "participant"} : Crash(who)
               \/ ServeClosed)
    /\ WF_vars(DrainStep)
    /\ SF_vars(DrainSelectCtx)
    /\ \A h \in Handlers : WF_vars(HandlerStep(h))

FairSpec == Init /\ [][Next]_vars /\ Fairness

\* ------------------------------------------------------------ vocabulary
Returned(c) == pc[c] = "returned"
Started(c) == pc[c] # "idle"
\* A caller is inside the function passed to shutdownOnce.Do.
ShutdownInFlight == \E c \in Callers : pc[c] \in {"close", "spawn", "range", "wait"}
DrainRunning == drain.pc \in {"shutdown", "poll", "select", "close"}
DrainFinished == drain.pc \in {"done", "panicked"}
RunningParts == {i \in Slots : part[i] \in {"running", "instop"}}
Terminated == crashed # "no"

\* ------------------------------------------------------------------ C1
\* C1: among any number of Stop callers (the serve goroutine included) exactly
\* one runs the shutdown algorithm: at most one caller ever enters the function
\* of shutdownOnce, the drain goroutine is started at most once and by that
\* caller, no participant is started twice, and once any Stop call has
\* returned the drain goroutine has been started exactly once.
C1_ExactlyOneExecutor ==
    /\ Cardinality(executors) <= 1
    /\ drainLaunches <= 1
    /\ \A i \in Slots : partLaunches[i] <= 1
    /\ drain.pc # "none" => drain.owner \in executors
    /\ (\E c \in Callers : Returned(c)) =>
          Cardinality(executors) = 1 /\ drainLaunches = 1

\* Every caller has called Stop and returned, after a single drain launch.
C1_Witness == (\A c \in Callers : Returned(c)) /\ drainLaunches = 1

\* ------------------------------------------------------------------ C2
\* C2: when any call of Stop has returned, the drain goroutine has finished
\* and no started participant is still running (the wait group is at zero).
C2_ReturnAfterBranches ==
    (\E c \in Callers : Returned(c)) =>
        /\ DrainFinished
        /\ RunningParts = {}
        /\ wg = 0

\* A caller that did not run the shutdown itself has returned, after a
\* participant ran to its end.
C2_Witness ==
    \E c \in Callers :
        /\ Returned(c)
        /\ c \notin executors
        /\ \E i \in Slots : part[i] = "done"

\* ------------------------------------------------------------------ C3
\* C3: the channel returned by Done is open until a Stop call runs the
\* shutdown, is closed by exactly one close (never a second one, which would
\* panic), is closed by the time any Stop returns, and never opens again.
C3_DoneClosedOnce ==
    /\ [](/\ closeAttempts <= 1
          /\ (shuttingDown = "closed") <=> (closeAttempts = 1)
          /\ executors = {} => shuttingDown = "open"
          /\ (\E c \in Callers : Returned(c)) => shuttingDown = "closed"
          /\ crashed # "close")
    /\ [][shuttingDown = "closed" => shuttingDown' = "closed"]_vars

\* The channel is closed and a second caller has passed shutdownOnce.Do
\* without running its function.
C3_Witness ==
    /\ shuttingDown = "closed"
    /\ \E c \in Callers : c \notin executors /\ pc[c] = "unlock"

\* ------------------------------------------------------------------ C4
\* C4: whenever the drain goroutine or a participant has been started, the
\* channel returned by Done is already closed.
C4_ClosedBeforeLaunch ==
    (drainLaunches > 0 \/ drain.pc # "none" \/ \E i \in Slots : part[i] # "none")
        => shuttingDown = "closed"

\* The drain goroutine and a participant are both running.
C4_Witness == drain.pc = "shutdown" /\ RunningParts # {}

NoPendingStop == \A c \in Callers : Started(c) => Returned(c)
\* A participant that does not return: it is inside its own call of Stop.
ParticipantInStop == \E i \in Slots : part[i] = "instop"

\* C7 as stated: every Stop call that has started eventually returns (or the
\* process is ended by a panic), whatever the context, as long as every
\* participant returns.
C7_Original == []<>(NoPendingStop \/ Terminated \/ ParticipantInStop)

\* C7 amended: every Stop call that has started eventually returns (or the
\* process is ended by a panic), provided the context of the Stop call that
\* runs the shutdown is cancelled or expires and every participant returns.
\* With a context that never
\* expires, a handler blocked in addShutdownFunc keeps its connection active
\* and srv.Shutdown, hence Stop, waits for ever.
C7_StopReturns ==
    []<>(NoPendingStop \/ Terminated \/ ParticipantInStop
            \/ drain.ctxKind = "background")

\* A Stop with a deadline has returned after the forceful close, while a
\* handler that called addShutdownFunc during the shutdown is still waiting
\* for the mutex.
C7_Witness ==
    /\ drain.ctxKind = "deadline"
    /\ drain.closeCalls = 1
    /\ Returned(drain.owner)
    /\ \E h \in Handlers : hpc[h] = "reglock"

\* ------------------------------------------------------------------ C8
\* C8 as stated: a registration waiting at the mutex while a shutdown is in
\* flight can take the mutex (it does not wait for the shutdown to finish).
C8_Original ==
    \A h \in Handlers :
        (hpc[h] = "reglock" /\ ShutdownInFlight) => ENABLED RegLock(h)

\* C8 amended: addShutdownFunc takes the mutex that Stop holds from its first
\* line until it returns, so a registration issued while a shutdown is in
\* flight blocks until that Stop has returned: while the shutdown is in flight
\* no registration is inside its critical section and shutdownFuncs does not
\* change.
C8_RegistrationWaits ==
    /\ [](ShutdownInFlight => \A h \in Handlers : hpc[h] # "regin")
    /\ [][ShutdownInFlight => shutdownFuncs' = shutdownFuncs]_vars

\* A registration is waiting at the mutex while Stop waits for its branches.
C8_Witness ==
    /\ \E h \in Handlers : hpc[h] = "reglock"
    /\ \E c \in Callers : pc[c] = "wait"

C13_LoopFailureStops ==
    /\ [](serveLoop = "failed" <=> Started(LoopCaller))
    /\ [](pc[LoopCaller] \notin {"idle", "returned"}
            => ctx[LoopCaller] = [kind |-> "cancelled", done |-> TRUE])
    /\ [](drain.owner = LoopCaller => drain.ctxKind = "cancelled")
    /\ (serveLoop = "failed" ~> shuttingDown = "closed")

\* The accept loop failed, and the Stop the serve goroutine called ran the
\* shutdown and returned.
C13_Witness ==
    /\ serveLoop = "failed"
    /\ LoopCaller \in executors
    /\ Returned(LoopCaller)

\* ------------------------------------------------------------------ C14
\* The Stop call that runs the shutdown has started every goroutine of its
\* range loop.
RangeFinished ==
    \E c \in executors : pc[c] \in {"wait", "unlock", "returned"}

\* C14: the range statement of the first Stop takes the list once, and the
\* list is then exactly the registrations completed so far (rangeLen entries;
\* it cannot change while that Stop runs).  Every entry taken is started once
\* (never twice, by any Stop) and is given the context of the Stop call that
\* started the drain goroutine; an entry appended later (index above rangeLen)
\* is never started.
C14_ParticipantsInvokedOnce ==
    /\ [](\A i \in Slots : partLaunches[i] <= 1)
    /\ [](\A i \in Slots : partLaunches[i] = 1 =>
            /\ i <= rangeLen
            /\ partCtx[i] = drain.owner
            /\ partCtx[i] \in executors)
    /\ [](RangeFinished => \A i \in Slots : (partLaunches[i] = 1 <=> i <= rangeLen))
    /\ [](\A c \in AllCallers :
            pc[c] \in {"range", "wait"} => rangeLen = Len(shutdownFuncs))
    /\ [](rangeLen <= Len(shutdownFuncs))
    /\ [][drainLaunches >= 1 => rangeLen' = rangeLen]_vars

\* A registration completed after the first Stop had taken the list; a later
\* Stop call has returned and the late entry was never started.
C14_Witness ==
    /\ Len(shutdownFuncs) > rangeLen
    /\ \E c \in Callers : Returned(c) /\ c \notin executors
    /\ \A i \in Slots : partLaunches[i] = 0

Lifecycle ==
    IF shutdownOnce THEN "Stopped"
    ELSE IF shuttingDown = "closed" THEN "ShuttingDown"
    ELSE "Running"
LifecycleNext(l) ==
    IF l = "Running" THEN "ShuttingDown" ELSE "Stopped"

\* C16: every step leaves the lifecycle state where it is or moves it to the
\* next one of Running -> ShuttingDown -> Stopped: it never goes back and
\* never goes from Running to Stopped directly.
C16_LifecycleForward ==
    [][Lifecycle' \in {Lifecycle, LifecycleNext(Lifecycle)}]_vars

\* Stopped: the shutdown has completed, a Stop call has returned and the
\* accept loop has ended with http.ErrServerClosed.
C16_Witness ==
    /\ Lifecycle = "Stopped"
    /\ \E c \in Callers : Returned(c)
    /\ serveLoop = "closed"

\* ------------------------------------------------------------------ C19
\* C19: a shutdown function that calls Stop on its own server stays at
\* s.shutdownFuncsM.Lock() for ever: in every state in which a participant is
\* inside Stop, that call is still waiting for the mutex, the mutex is held
\* by the Stop call that runs the shutdown, that call is in its range loop or
\* in wg.Wait with the participant still counted, the function given to
\* shutdownOnce.Do has not returned, and no step ends any of this.
C19_NestedStopBlocks ==
    /\ [](\A i \in Slots : part[i] = "instop" =>
            /\ pc[PartCaller(i)] = "lock"
            /\ wg >= 1
            /\ ~shutdownOnce
            /\ \E e \in executors :
                 /\ pc[e] \in {"range", "wait"}
                 /\ shutdownFuncsM = HeldByStop(e))
    /\ [][\A i \in Slots : part[i] = "instop" => part'[i] = "instop"]_vars

\* The drain goroutine has finished, the first Stop is in wg.Wait, and the
\* participant it waits for is inside its own call of Stop.
C19_Witness ==
    /\ ParticipantInStop
    /\ DrainFinished
    /\ \E e \in executors : pc[e] = "wait"

\* =================================================== pipeline composer
\* svc = svc.Filter(f), called by the application before Serve.
FilterCall(f) ==
    /\ ~served
    /\ Len(filters) < MaxStages
    /\ svc' = Filter(svc, f)
    /\ filters' = Append(filters, f)
    /\ UNCHANGED << served, trace, stopVars, listenVars >>

\* Serve (server.go:82-88): svc = svc.Filter(injection stage); the result is
\* the handler of the http.Server.
ServeWrap ==
    /\ ~served
    /\ svc' = Filter(svc, InjectStage)
    /\ served' = TRUE
    /\ UNCHANGED << filters, trace, stopVars, listenVars >>

\* The http.Server hands a request to the handler.
Request ==
    /\ served
    /\ trace' = Call(svc, NewRequest)
    /\ UNCHANGED << svc, filters, served, stopVars, listenVars >>

NextFilter ==
    \/ \E f \in Stages : FilterCall(f)
    \/ ServeWrap
    \/ Request

SpecFilter == Init /\ [][NextFilter]_vars

\* ------------------------------------------------------------------ C9
\* C9: with stages s1, ..., sn passed to Filter in this order and then Serve,
\* a request is observed as: the injection stage, sn-pre, ..., s1-pre, the
\* terminal handler, s1-post, ..., sn-post; every stage and the terminal
\* handler see the request with req.server already set.
C9_Expected ==
    LET n == Len(filters)
        set == [server |-> "s"]
    IN  [k \in 1 .. (2 * n + 2) |->
           IF k = 1 THEN Event("pre", InjectStage, NewRequest)
           ELSE IF k <= n + 1 THEN Event("pre", filters[n + 2 - k], set)
           ELSE IF k = n + 2 THEN Event("handle", "T", set)
           ELSE Event("post", filters[k - (n + 2)], set)]

C9_FilterOrder == trace # << >> => trace = C9_Expected

\* A request went through two different stages.
C9_Witness ==
    /\ trace # << >>
    /\ Len(filters) = 2
    /\ filters[1] # filters[2]

\* =================================================== listener acquisition
\* strconv.Atoi: an optional sign, then one or more decimal digits.
RECURSIVE DigitsVal(_)
DigitsVal(ds) ==
    IF ds = << >> THEN 0
    ELSE DigitsVal(SubSeq(ds, 1, Len(ds) - 1)) * 10 + DigitVal(ds[Len(ds)])

Atoi(str) ==
    LET signed == Len(str) > 0 /\ str[1] \in {"+", "-"}
        ds == IF signed THEN Tail(str) ELSE str
        ok == Len(ds) > 0 /\ \A i \in 1 .. Len(ds) : IsDigit(ds[i])
    IN  [ok |-> ok,
         val |-> IF ~ok THEN 0
                 ELSE IF signed /\ str[1] = "-" THEN 0 - DigitsVal(ds)
                 ELSE DigitsVal(ds)]

\* The decimal digits of n, as %d prints them.
RECURSIVE Itoa(_)
Itoa(n) ==
    IF n < 0 THEN << "-" >> \o Itoa(0 - n)
    ELSE IF n < 10 THEN << Digits[n + 1] >>
    ELSE Itoa(n \div 10) \o << Digits[(n % 10) + 1] >>

\* fmt.Sprintf(":%d", port) (line 154).
SprintfPort(port) == << ":" >> \o Itoa(port)

\* The address Listen / ListenTLS resolve (lines 150-158 and 176-184).
ChooseAddr(addr, envAddr, envPort) ==
    IF addr # EmptyStr THEN addr
    ELSE IF envAddr # EmptyStr THEN envAddr
    ELSE LET port == Atoi(envPort)
         IN  IF port.ok /\ port.val >= 0 THEN SprintfPort(port.val)
             ELSE << ":", "0" >>

\* net.ResolveTCPAddr("tcp", addr) (line 159): host and port are split at the
\* last colon; an empty host is the unspecified address, an empty port is 0;
\* the port must be a number in 0..65535.
ResolveTCPAddr(addr) ==
    LET colons == {i \in 1 .. Len(addr) : addr[i] = ":"}
    IN  IF colons = {} THEN [ok |-> FALSE, host |-> "", port |-> -1]
        ELSE
          LET last == CHOOSE i \in colons : \A j \in colons : j <= i
              host == SubSeq(addr, 1, last - 1)
              port == SubSeq(addr, last + 1, Len(addr))
              num == Atoi(port)
              hostOk == \/ host = EmptyStr
                        \/ Len(host) = 1 /\ host[1] \in HostLiterals
              portOk == \/ port = EmptyStr
                        \/ num.ok /\ num.val >= 0 /\ num.val <= 65535
          IN  IF hostOk /\ portOk
                THEN [ok |-> TRUE,
                      host |-> IF host = EmptyStr THEN "" ELSE host[1],
                      port |-> IF port = EmptyStr THEN 0 ELSE num.val]
                ELSE [ok |-> FALSE, host |-> "", port |-> -1]

\* net.ListenTCP("tcp", tcpAddr) (line 164): the unspecified address binds
\* every interface ("*"); port 0 lets the system pick a free port; the bind
\* fails when the system refuses it.
ListenTCP(tcp, free) ==
    IF free
      THEN [status |-> "ok", host |-> IF tcp.host = "" THEN "*" ELSE tcp.host,
            port |-> tcp.port]
      ELSE [status |-> "bind_error", host |-> "", port |-> -1]

\* The body shared by Listen (lines 145-169) and ListenTLS (lines 171-195).
ListenResult(addr, envAddr, envPort, free) ==
    LET tcpAddr == ResolveTCPAddr(ChooseAddr(addr, envAddr, envPort))
    IN  IF ~tcpAddr.ok
          THEN [status |-> "resolve_error", host |-> "", port |-> -1]
          ELSE ListenTCP(tcpAddr, free)

\* The inputs: the addr argument, LISTEN_ADDR and PORT (unset reads as "").
AddrInputs ==
    {EmptyStr, << "127.0.0.1", ":", "8", "0" >>, << ":", "9" >>, << "x" >>}
EnvAddrInputs == {EmptyStr, << "10.0.0.5", ":", "7" >>, << "10.0.0.5" >>}
EnvPortInputs ==
    {EmptyStr, << "8" >>, << "8", "0" >>, << "0" >>, << "+", "5" >>, << "-", "1" >>,
     << "x" >>, << "7", "0", "0", "0", "0" >>}

\* What Listen / ListenTLS return after the bind result b (lines 159-168,
\* 185-194): `return nil, err` when the resolution or the bind failed (the
\* bind is not reached after a failed resolution), else `return Serve(svc, l)`,
\* which starts the accept loop and returns the new Server and a nil error.
ListenReturn(b) ==
    [server |-> b.status = "ok",
     err |-> IF b.status = "ok" THEN "nil" ELSE b.status,
     cleanup |-> "none",
     binds |-> IF b.status = "resolve_error" THEN 0 ELSE 1,
     serves |-> IF b.status = "ok" THEN 1 ELSE 0]

Listen(addr, envAddr, envPort, free) ==
    /\ lcall' = [fn |-> "Listen", addr |-> addr, envAddr |-> envAddr,
                 envPort |-> envPort]
    /\ bound' = ListenResult(addr, envAddr, envPort, free)
    /\ lret' = ListenReturn(bound')
    /\ ubound' = NoUBound
    /\ UNCHANGED << stopVars, filterVars, fs, usrv >>

ListenTLS(addr, envAddr, envPort, free) ==
    /\ lcall' = [fn |-> "ListenTLS", addr |-> addr, envAddr |-> envAddr,
                 envPort |-> envPort]
    /\ bound' = ListenResult(addr, envAddr, envPort, free)
    /\ lret' = ListenReturn(bound')
    /\ ubound' = NoUBound
    /\ UNCHANGED << stopVars, filterVars, fs, usrv >>

NextListen ==
    \/ \E a \in AddrInputs, ea \in EnvAddrInputs, ep \in EnvPortInputs,
          free \in BOOLEAN : Listen(a, ea, ep, free)
    \/ \E a \in AddrInputs, ea \in EnvAddrInputs, ep \in EnvPortInputs,
          free \in BOOLEAN : ListenTLS(a, ea, ep, free)

SpecListen == Init /\ [][NextListen]_vars

\* ------------------------------------------------------------------ C10
\* What a bound listener must be when the address string a decided it.
C10_BoundAs(a) ==
    LET tcp == ResolveTCPAddr(a)
    IN  /\ bound.host = (IF tcp.host = "" THEN "*" ELSE tcp.host)
        /\ bound.port = tcp.port

\* C10: whenever Listen or ListenTLS has bound a listener, the bind address was
\* decided by the explicit address if given, else by LISTEN_ADDR if set, else
\* by PORT if it holds a port number (every interface, that port), and
\* otherwise it is an ephemeral port (0: chosen by the system) on the loopback
\* interface only.
C10_Precedence ==
    bound.status = "ok" =>
        IF lcall.addr # EmptyStr THEN C10_BoundAs(lcall.addr)
        ELSE IF lcall.envAddr # EmptyStr THEN C10_BoundAs(lcall.envAddr)
        ELSE IF Atoi(lcall.envPort).ok /\ Atoi(lcall.envPort).val >= 0
          THEN bound.host = "*" /\ bound.port = Atoi(lcall.envPort).val
          ELSE bound.host = "127.0.0.1" /\ bound.port = 0

\* ========================================================= domain sockets
\* Largest number of servers ListenUnix / ListenUnixTLS create.
MaxSockets == 2

\* The path ListenUnix and ListenUnixTLS bind (lines 202-209, 227-234): the
\* path argument, else LISTEN_PATH, else what os.TempDir() returns.
ChooseUnixPath(path, envPath) ==
    IF path # EmptyStr THEN path
    ELSE IF envPath # EmptyStr THEN envPath
    ELSE TempDir

\* net.ListenUnix("unix", &net.UnixAddr{Name: path}) (lines 211, 236): bind(2)
\* creates the socket file and fails with "address already in use" when
\* anything exists at the path (a file, a socket or a directory); it also
\* fails when the system refuses it.
NetListenUnix(path, free, files) ==
    [status |-> IF path \in files \/ ~free THEN "bind_error" ELSE "ok",
     path |-> path,
     present |-> path \in files]

\* A ListenUnix that hands out the cleanup function also when the bind failed.
ListenUnixReturnCleanup(b) ==
    [server |-> b.status = "ok",
     err |-> IF b.status = "ok" THEN "nil" ELSE b.status,
     cleanup |-> "func",
     binds |-> 1,
     serves |-> IF b.status = "ok" THEN 1 ELSE 0]
\* What ListenUnix / ListenUnixTLS return after the bind result b (lines
\* 211-219, 236-241): `return nil, err, nil` when the bind failed, else the
\* Server and error of Serve / ServeTLS and the cleanup function.
ListenUnixReturn(b) ==
    [server |-> b.status = "ok",
     err |-> IF b.status = "ok" THEN "nil" ELSE b.status,
     cleanup |-> IF b.status = "ok" THEN "func" ELSE "nil",
     binds |-> 1,
     serves |-> IF b.status = "ok" THEN 1 ELSE 0]

\* A server a successful call created.  tracked: its http.Server has taken
\* over the listener (srv.Serve tracks it and closes it when the server shuts
\* down or the accept loop ends; srv.ServeTLS returns before that when it
\* cannot load certFile / keyFile); stopped: Stop has been called on it;
\* cleaned: the returned cleanup function has been called.
NewUnixServer(path, tracked) ==
    [path |-> path, tracked |-> tracked, listener |-> "open",
     stopped |-> FALSE, cleaned |-> FALSE]

\* ListenUnix (lines 197-220): Serve hands the listener to srv.Serve.
ListenUnix(path, envPath, free) ==
    LET b == NetListenUnix(ChooseUnixPath(path, envPath), free, fs)
    IN  /\ b.status = "ok" => Len(usrv) < MaxSockets
        /\ lcall' = [fn |-> "ListenUnix", addr |-> path, envAddr |-> envPath,
                     envPort |-> EmptyStr]
        /\ ubound' = b
        /\ bound' = NoBound
        /\ lret' = ListenUnixReturn(b)
        /\ IF b.status = "ok"
             THEN /\ fs' = fs \cup {b.path}
                  /\ usrv' = Append(usrv, NewUnixServer(b.path, TRUE))
             ELSE UNCHANGED << fs, usrv >>
        /\ UNCHANGED << stopVars, filterVars >>

\* ListenUnixTLS (lines 222-242): ServeTLS hands the listener to srv.ServeTLS,
\* which passes it on to srv.Serve only when the certificate loads.
ListenUnixTLS(path, envPath, free, certOk) ==
    LET b == NetListenUnix(ChooseUnixPath(path, envPath), free, fs)
    IN  /\ b.status = "ok" => Len(usrv) < MaxSockets
        /\ lcall' = [fn |-> "ListenUnixTLS", addr |-> path, envAddr |-> envPath,
                     envPort |-> EmptyStr]
        /\ ubound' = b
        /\ bound' = NoBound
        /\ lret' = ListenUnixReturn(b)
        /\ IF b.status = "ok"
             THEN /\ fs' = fs \cup {b.path}
                  /\ usrv' = Append(usrv, NewUnixServer(b.path, certOk))
             ELSE UNCHANGED << fs, usrv >>
        /\ UNCHANGED << stopVars, filterVars >>

\* s.Stop(ctx) is called on server k (by the application, or by the serve
\* goroutine of lines 89-98 / 132-141 after its accept loop failed).
UnixStop(k) ==
    /\ k \in DOMAIN usrv
    /\ ~usrv[k].stopped
    /\ usrv' = [usrv EXCEPT ![k].stopped = TRUE]
    /\ UNCHANGED << stopVars, filterVars, lcall, bound, ubound, lret, fs >>

\* The http.Server of a stopped server closes the listener it tracks:
\* srv.Shutdown (line 48) closes every tracked listener before it waits for
\* connections, and srv.Serve closes its listener when it returns.
\* net.UnixListener.Close unlinks the path of a socket file that
\* net.ListenUnix created, whatever is at that path by then.
UnixListenerClose(k) ==
    /\ k \in DOMAIN usrv
    /\ usrv[k].stopped
    /\ usrv[k].tracked
    /\ usrv[k].listener = "open"
    /\ usrv' = [usrv EXCEPT ![k].listener = "closed"]
    /\ fs' = fs \ {usrv[k].path}
    /\ UNCHANGED << stopVars, filterVars, lcall, bound, ubound, lret >>

\* A cleanup function that leaves the file where it is.
CleanupSkipped(k) ==
    /\ k \in DOMAIN usrv
    /\ ~usrv[k].cleaned
    /\ usrv' = [usrv EXCEPT ![k].cleaned = TRUE]
    /\ UNCHANGED << stopVars, filterVars, lcall, bound, ubound, lret, fs >>
\* The application calls the cleanup function of server k (lines 217-219,
\* 241): os.Remove(path); its error is dropped.
Cleanup(k) ==
    /\ k \in DOMAIN usrv
    /\ ~usrv[k].cleaned
    /\ usrv' = [usrv EXCEPT ![k].cleaned = TRUE]
    /\ fs' = fs \ {usrv[k].path}
    /\ UNCHANGED << stopVars, filterVars, lcall, bound, ubound, lret >>

\* The inputs: the path argument and LISTEN_PATH (unset reads as "").
PathInputs ==
    {EmptyStr, RunDir \o << "/", "a.sock" >>, TempDir \o << "/", "libhttp.socket" >>}
EnvPathInputs == {EmptyStr, RunDir \o << "/", "b.sock" >>}

NextUnix ==
    \/ \E p \in PathInputs, ep \in EnvPathInputs, free \in BOOLEAN :
          ListenUnix(p, ep, free)
    \/ \E p \in PathInputs, ep \in EnvPathInputs, free \in BOOLEAN,
          certOk \in BOOLEAN : ListenUnixTLS(p, ep, free, certOk)
    \/ \E k \in 1 .. MaxSockets : UnixStop(k)
    \/ \E k \in 1 .. MaxSockets : UnixListenerClose(k)
    \/ \E k \in 1 .. MaxSockets : Cleanup(k)

SpecUnix == Init /\ [][NextUnix]_vars

\* The four functions that acquire a listener.
NextBind ==
    \/ \E a \in AddrInputs, ea \in EnvAddrInputs, ep \in EnvPortInputs,
          free \in BOOLEAN : Listen(a, ea, ep, free)
    \/ \E a \in AddrInputs, ea \in EnvAddrInputs, ep \in EnvPortInputs,
          free \in BOOLEAN : ListenTLS(a, ea, ep, free)
    \/ \E p \in PathInputs, ep \in EnvPathInputs, free \in BOOLEAN :
          ListenUnix(p, ep, free)
    \/ \E p \in PathInputs, ep \in EnvPathInputs, free \in BOOLEAN,
          certOk \in BOOLEAN : ListenUnixTLS(p, ep, free, certOk)

SpecBind == Init /\ [][NextBind]_vars

\* ----------------------------------------------------------- vocabulary
UnixFns == {"ListenUnix", "ListenUnixTLS"}
SetupErrors == {"resolve_error", "bind_error"}
\* The step calls the cleanup function of server k / closes its listener.
CleanupStep(k) == ~usrv[k].cleaned /\ usrv'[k].cleaned
CloseStep(k) == usrv[k].listener = "open" /\ usrv'[k].listener = "closed"
\* No other server was bound to the path of server k.
SolePath(k) == \A j \in DOMAIN usrv : j # k => usrv[j].path # usrv[k].path

C17_Inside(path, dir) ==
    /\ Len(path) = Len(dir) + 2
    /\ SubSeq(path, 1, Len(dir)) = dir
    /\ path[Len(dir) + 1] = "/"

\* C17: the path ListenUnix / ListenUnixTLS hand to the bind is the path
\* argument if given, else LISTEN_PATH if set, else a path for a new file
\* inside the system temporary directory (not the directory itself, and not
\* a path that exists).
C17_PathPrecedence ==
    (lcall.fn \in UnixFns /\ ubound.status # "none") =>
        IF lcall.addr # EmptyStr THEN ubound.path = lcall.addr
        ELSE IF lcall.envAddr # EmptyStr THEN ubound.path = lcall.envAddr
        ELSE /\ C17_Inside(ubound.path, TempDir)
             /\ ~ubound.present

\* ------------------------------------------------------------------ C18
\* C18: when the resolution or the bind fails in Listen, ListenTLS,
\* ListenUnix or ListenUnixTLS, the call returns that error and a nil Server,
\* has not called Serve / ServeTLS (no accept loop), has called the bind at
\* most once (not at all after a failed resolution), has created no server
\* and no socket file, and, for ListenUnix and ListenUnixTLS, returns a nil
\* cleanup function.  A Server is returned only with a nil error.
C18_FailureReturnsNothing ==
    /\ [](bound.status \in SetupErrors => lret.err = bound.status)
    /\ [](ubound.status \in SetupErrors => lret.err = ubound.status)
    /\ [](lret.err \in SetupErrors =>
            /\ ~lret.server
            /\ lret.serves = 0
            /\ lret.binds = (IF lret.err = "resolve_error" THEN 0 ELSE 1)
            /\ lcall.fn \in UnixFns => lret.cleanup = "nil")
    /\ [](lret.server => lret.err = "nil" /\ lret.serves = 1 /\ lret.binds = 1)
    /\ [][lret'.err \in SetupErrors => usrv' = usrv /\ fs' = fs]_vars

\* ListenUnixTLS was called for the path of a server that exists: the bind
\* failed and the call returned the error, no Server and no cleanup function.
C18_Witness ==
    /\ lcall.fn = "ListenUnixTLS"
    /\ lret.err = "bind_error"
    /\ ubound.present
    /\ \E k \in DOMAIN usrv : usrv[k].path = ubound.path
====
